---- MODULE Spec2Model ----
(***************************************************************************)
(* FinalProfitableStrategy (src/atom.py): a backtrader strategy that holds *)
(* a long position while a fast EMA is above a slow EMA.                  *)
(*                                                                         *)
(* The strategy object is driven by cerebro.run(): for every bar of the    *)
(* data feed the broker first works the order left by the previous bar and *)
(* delivers notify_order(), then the strategy's prenext() (indicators      *)
(* still warming up) or next() runs.  Prices and indicator values are      *)
(* integers on a small grid; position_pct = 0.95 is the fraction 95/100    *)
(* and the arithmetic is exact (float rounding is not modelled).           *)
(***************************************************************************)
EXTENDS Integers, Sequences, FiniteSets

\* ---------------------------------------------------------------- params
fast_ema == 50
slow_ema == 200
atr_period == 14
stop_atr_multiplier == 8
position_pct_num == 95
position_pct_den == 100

\* cerebro.broker.setcash(100000)
StartingCash == 100000

\* ---------------------------------------------------------------- bounds
\* The feed ends once this many buys were filled and the position is flat
\* again (an order issued on the last bar is never worked).
MaxTrades == 2

\* Closes the feed may deliver (yfinance rows after dropna: never NaN, but
\* nothing in the program rejects a zero or negative price).
Closes == {-5, 0, 80, 84, 100}
\* Values a defined EMA takes.
EmaValues == {90, 110}
\* Values a defined ATR takes.
AtrValues == {2, 10}
\* broker.getvalue() as seen by next().
PortfolioValues == {90, 100000}
\* Prices at which the broker executes a market order (the next bar's open).
FillPrices == {99, 101}

\* ---------------------------------------------------------------- values
\* Python's None and a line's NaN are the empty tuple; a number x is <<x>>.
None == << >>
NaN == << >>
Num(x) == << x >>

VARIABLES
    barlen,        \* len(self), counted up to slow_ema + 1
    close_0,       \* self.data.close[0]
    fast_0,        \* self.fast_ema[0]
    slow_0,        \* self.slow_ema[0]
    fast_m1,       \* self.fast_ema[-1]
    slow_m1,       \* self.slow_ema[-1]
    atr_0,         \* self.atr[0]
    value,         \* self.broker.getvalue()
    position,      \* self.position.size
    order,         \* the order last handed to the broker
    entry_price,   \* self.entry_price
    stop_price,    \* self.stop_price
    trade_count,   \* self.trade_count
    emitted,       \* orders issued by the strategy on the current bar
    fault,         \* exception raised out of next(), "" when none
    backlog,       \* earlier orders the broker has not worked yet
    dipped,        \* a bar since the last entry was issued had fast <= slow
    buy_fills,     \* buys the broker has completed
    closed_trades, \* trades the broker has closed
    reported,      \* number in the last "Trade #" line printed, 0 if none
    pc             \* whose turn it is: "feed", "broker", "strategy", "crashed"

vars == << barlen, close_0, fast_0, slow_0, fast_m1, slow_m1, atr_0, value,
           position, order, entry_price, stop_price, trade_count, emitted,
           fault, backlog, dipped, buy_fills, closed_trades, reported, pc >>

data == << barlen, close_0, fast_0, slow_0, fast_m1, slow_m1, atr_0, value >>

\* What the broker and the console have counted.
tally == << buy_fills, closed_trades, reported >>

\* ------------------------------------------------------------ comparisons
\* Python float comparisons: any comparison with NaN is False.
Lt(a, b) == a # NaN /\ b # NaN /\ a[1] < b[1]
Gt(a, b) == a # NaN /\ b # NaN /\ a[1] > b[1]
Le(a, b) == a # NaN /\ b # NaN /\ a[1] <= b[1]

\* Truth value of an optional float: None and 0.0 are false.
Truthy(x) == x # None /\ x[1] # 0

Abs(x) == IF x < 0 THEN -x ELSE x

\* int(a / b) for b # 0: truncation toward zero.
IntDiv(a, b) ==
    IF (a < 0) = (b < 0) THEN Abs(a) \div Abs(b) ELSE -(Abs(a) \div Abs(b))

Max(a, b) == IF a >= b THEN a ELSE b
Min(a, b) == IF a <= b THEN a ELSE b

\* ---------------------------------------------------------------- orders
NoOrder == [status |-> "None", isbuy |-> FALSE, size |-> 0,
            created_price |-> 0, executed_price |-> None]

MarketOrder(buy, n) ==
    [status |-> "Created", isbuy |-> buy, size |-> n,
     created_price |-> close_0, executed_price |-> None]

Alive(o) == o.status \in {"Created", "Submitted", "Accepted"}

\* -------------------------------------------------------------- __init__
\* Smallest len(self) at which every indicator has a value: next() runs from
\* there on, prenext() before.
MinPeriod == Max(Max(fast_ema, slow_ema), atr_period + 1)

Init ==
    /\ barlen = 0
    /\ close_0 = 100
    /\ fast_0 = NaN /\ slow_0 = NaN /\ fast_m1 = NaN /\ slow_m1 = NaN
    /\ atr_0 = NaN
    /\ value = StartingCash
    /\ position = 0
    /\ order = NoOrder
    /\ entry_price = None
    /\ stop_price = None
    /\ trade_count = 0
    /\ emitted = << >>
    /\ fault = ""
    /\ backlog = << >>
    /\ dipped = TRUE
    /\ buy_fills = 0
    /\ closed_trades = 0
    /\ reported = 0
    /\ pc = "feed"

\* ---------------------------------------------------------------- feed
\* cerebro advances the data feed by one bar and the indicators with it.
LoadBar ==
    /\ pc = "feed"
    /\ (trade_count < MaxTrades \/ position # 0)
    /\ barlen' = Min(barlen + 1, slow_ema + 1)
    /\ close_0' \in Closes
    /\ fast_m1' = fast_0
    /\ slow_m1' = slow_0
    /\ IF barlen' >= fast_ema
         THEN \E v \in EmaValues : fast_0' = Num(v)
         ELSE fast_0' = NaN
    /\ IF barlen' >= slow_ema
         THEN \E v \in EmaValues : slow_0' = Num(v)
         ELSE slow_0' = NaN
    /\ IF barlen' >= atr_period + 1
         THEN \E v \in AtrValues : atr_0' = Num(v)
         ELSE atr_0' = NaN
    /\ value' \in PortfolioValues
    /\ emitted' = << >>
    /\ order' = IF Alive(order) THEN order ELSE NoOrder
    /\ pc' = IF Alive(order) THEN "broker" ELSE "strategy"
    /\ dipped' = (dipped \/ Le(fast_0', slow_0'))
    /\ UNCHANGED << position, entry_price, stop_price, trade_count, fault,
                    backlog, tally >>

\* ---------------------------------------------------------- notify_order
\* Variant: the entry price taken from the bar the order was created on.
notify_order_CreatedPrice(o) ==
    IF o.status = "Completed"
      THEN IF o.isbuy
             THEN /\ entry_price' = Num(o.created_price)
                  /\ trade_count' = trade_count + 1
             ELSE /\ entry_price' = None
                  /\ UNCHANGED trade_count
      ELSE UNCHANGED << entry_price, trade_count >>

\* Variant: the counter moves on every completed order.
notify_order_CountsEveryFill(o) ==
    IF o.status = "Completed"
      THEN /\ entry_price' = IF o.isbuy THEN o.executed_price ELSE None
           /\ trade_count' = trade_count + 1
      ELSE UNCHANGED << entry_price, trade_count >>

notify_order(o) ==
    IF o.status = "Completed"
      THEN IF o.isbuy
             THEN /\ entry_price' = o.executed_price
                  /\ trade_count' = trade_count + 1
             ELSE /\ entry_price' = None
                  /\ UNCHANGED trade_count
      ELSE UNCHANGED << entry_price, trade_count >>

\* ---------------------------------------------------------- notify_trade
\* Called after notify_order for the trade the fill belongs to; a closed
\* trade prints "Trade #{self.trade_count}".
notify_trade(isclosed) ==
    IF isclosed THEN reported' = trade_count' ELSE UNCHANGED reported

\* The broker moves the order one status on and notifies the strategy.
BrokerSubmit ==
    /\ pc = "broker"
    /\ backlog = << >>
    /\ order.status = "Created"
    /\ order' = [order EXCEPT !.status = "Submitted"]
    /\ notify_order(order')
    /\ UNCHANGED << data, position, stop_price, emitted, fault, pc,
                    backlog, dipped, tally >>

BrokerAccept ==
    /\ pc = "broker"
    /\ order.status = "Submitted"
    /\ order' = [order EXCEPT !.status = "Accepted"]
    /\ notify_order(order')
    /\ UNCHANGED << data, position, stop_price, emitted, fault, pc,
                    backlog, dipped, tally >>

\* The market order executes at the bar's open and the position follows.
BrokerComplete ==
    /\ pc = "broker"
    /\ order.status = "Accepted"
    /\ \E p \in FillPrices :
         order' = [order EXCEPT !.status = "Completed",
                                !.executed_price = Num(p)]
    /\ position' = IF order.isbuy THEN position + order.size
                                  ELSE position - order.size
    /\ notify_order(order')
    /\ buy_fills' = IF order.isbuy THEN buy_fills + 1 ELSE buy_fills
    /\ closed_trades' = IF position # 0 /\ position' = 0
                          THEN closed_trades + 1 ELSE closed_trades
    /\ notify_trade(position # 0 /\ position' = 0)
    /\ pc' = "strategy"
    /\ UNCHANGED << data, stop_price, emitted, fault, backlog, dipped >>

\* Not enough cash at the execution price: the buy is refused (Margin).
BrokerMargin ==
    /\ pc = "broker"
    /\ order.status = "Accepted"
    /\ order.isbuy
    /\ order' = [order EXCEPT !.status = "Margin"]
    /\ notify_order(order')
    /\ pc' = "strategy"
    /\ UNCHANGED << data, position, stop_price, emitted, fault,
                    backlog, dipped, tally >>

\* ------------------------------------------------------------------ next
\* Variant: the trend exit is taken only below the stop.
TrendReversal_BelowStop ==
    /\ Lt(fast_0, slow_0)
    /\ Truthy(stop_price) /\ Lt(Num(close_0), stop_price)

\* if self.fast_ema[0] < self.slow_ema[0]
TrendReversal == Lt(fast_0, slow_0)

\* Variant: the stop also fires on a close equal to it.
StopHit_Le == Truthy(stop_price) /\ Le(Num(close_0), stop_price)

\* if self.stop_price and self.data.close[0] < self.stop_price
StopHit == Truthy(stop_price) /\ Lt(Num(close_0), stop_price)

\* Variant: the previous bar is not looked at.
GoldenCross_NoPrev == Gt(fast_0, slow_0)

\* Variant: "not above" on the previous bar, which NaN satisfies.
GoldenCross_NotAbove == Gt(fast_0, slow_0) /\ ~Gt(fast_m1, slow_m1)

\* fast_ema[0] > slow_ema[0] and fast_ema[-1] <= slow_ema[-1]
GoldenCross == Gt(fast_0, slow_0) /\ Le(fast_m1, slow_m1)

\* Variant: rounding to the nearest integer instead of truncating.
EntrySize_Round(pv, c) ==
    IntDiv(2 * pv * position_pct_num + position_pct_den * c,
           2 * position_pct_den * c)

\* int((portfolio_value * position_pct) / close), for c # 0
EntrySize(pv, c) == IntDiv(pv * position_pct_num, position_pct_den * c)

\* close - atr * stop_atr_multiplier
StopLevel(c, a) == c - a * stop_atr_multiplier

\* Variant: a size of 0 is let through.
MinSize_Zero == 1 - 1

\* if size >= 1
MinSize == 1

\* self.close() sells a long position (and would buy back a short one).
CloseOrder(why) ==
    [kind |-> IF position < 0 THEN "buy" ELSE "sell",
     size |-> Abs(position), reason |-> why]
Buy(n) == [kind |-> "buy", size |-> n, reason |-> ""]

\* The broker keeps an order it has not worked yet when a new one comes.
Queued == IF Alive(order) THEN Append(backlog, order) ELSE backlog

\* self.close(), the EXIT line printed, return.
ExitWith(why) ==
    /\ emitted' = Append(emitted, CloseOrder(why))
    /\ order' = MarketOrder(position < 0, Abs(position))
    /\ backlog' = Queued
    /\ pc' = "feed"
    /\ UNCHANGED << stop_price, fault, dipped >>

\* Variant: a bar without an order trails the stop up behind the close.
Hold_Trailing ==
    /\ pc' = "feed"
    /\ stop_price' =
         IF /\ position # 0 /\ atr_0 # NaN /\ stop_price # None
            /\ StopLevel(close_0, atr_0[1]) > stop_price[1]
           THEN Num(StopLevel(close_0, atr_0[1]))
           ELSE stop_price
    /\ UNCHANGED << emitted, order, fault, backlog, dipped >>

\* next() returns without having issued an order.
Hold ==
    /\ pc' = "feed"
    /\ UNCHANGED << emitted, order, stop_price, fault, backlog, dipped >>

\* Variant: the stop is looked at before the trend.
ManagePosition_StopFirst ==
    IF StopHit
      THEN ExitWith("Stop loss")
      ELSE IF TrendReversal
             THEN ExitWith("Trend reversal")
             ELSE Hold

\* The branch of next() taken with a position.
ManagePosition ==
    IF TrendReversal
      THEN ExitWith("Trend reversal")
      ELSE IF StopHit
             THEN ExitWith("Stop loss")
             ELSE Hold

\* self.buy(size=size) and the stop fixed from this bar's close and ATR.
EnterLong(n) ==
    /\ emitted' = Append(emitted, Buy(n))
    /\ order' = MarketOrder(TRUE, n)
    /\ backlog' = Queued
    /\ dipped' = FALSE
    /\ stop_price' = IF atr_0 = NaN THEN NaN
                     ELSE Num(StopLevel(close_0, atr_0[1]))
    /\ pc' = "feed"
    /\ UNCHANGED fault

\* Variant: no entry is looked for while a stop is still on record.
SeekEntry_UnlessStopSet ==
    IF GoldenCross /\ stop_price = None
      THEN IF close_0 = 0
             THEN /\ fault' = "ZeroDivisionError"
                  /\ pc' = "crashed"
                  /\ UNCHANGED << emitted, order, stop_price, backlog,
                                  dipped >>
             ELSE IF EntrySize(value, close_0) >= MinSize
                    THEN EnterLong(EntrySize(value, close_0))
                    ELSE Hold
      ELSE Hold

\* The branch of next() taken without a position.  Dividing by a close of
\* 0.0 raises ZeroDivisionError, which ends the run.
SeekEntry ==
    IF GoldenCross
      THEN IF close_0 = 0
             THEN /\ fault' = "ZeroDivisionError"
                  /\ pc' = "crashed"
                  /\ UNCHANGED << emitted, order, stop_price, backlog,
                                  dipped >>
             ELSE IF EntrySize(value, close_0) >= MinSize
                    THEN EnterLong(EntrySize(value, close_0))
                    ELSE Hold
      ELSE Hold

\* Variant: "if" in place of "else", so a bar that holds the position goes
\* on to look for an entry.
next_NoElse ==
    /\ pc = "strategy"
    /\ barlen >= MinPeriod
    /\ IF position # 0 /\ (TrendReversal \/ StopHit)
         THEN ManagePosition
         ELSE SeekEntry
    /\ UNCHANGED << data, position, entry_price, trade_count, tally >>

next ==
    /\ pc = "strategy"
    /\ barlen >= MinPeriod
    /\ IF position # 0 THEN ManagePosition ELSE SeekEntry
    /\ UNCHANGED << data, position, entry_price, trade_count, tally >>

\* bt.Strategy.prenext: the default does nothing.
prenext ==
    /\ pc = "strategy"
    /\ barlen < MinPeriod
    /\ pc' = "feed"
    /\ UNCHANGED << data, position, order, entry_price, stop_price,
                    trade_count, emitted, fault, backlog, dipped, tally >>

Next ==
    \/ LoadBar
    \/ BrokerSubmit
    \/ BrokerAccept
    \/ BrokerComplete
    \/ BrokerMargin
    \/ prenext
    \/ next

Spec == Init /\ [][Next]_vars

\* ------------------------------------------- a broker that takes its time
\* The execution side of spec.md section 6 reports whether an order was
\* filled; here it may leave an accepted exit unfilled on a bar, so that
\* next() runs while the exit is still with the broker.
BrokerDefer ==
    /\ pc = "broker"
    /\ backlog = << >>
    /\ order.status = "Accepted"
    /\ ~order.isbuy
    /\ pc' = "strategy"
    /\ UNCHANGED << data, position, order, entry_price, stop_price,
                    trade_count, emitted, fault, backlog, dipped, tally >>

\* The oldest order still waiting is executed before the newest is looked at.
BrokerWorkBacklog ==
    /\ pc = "broker"
    /\ backlog # << >>
    /\ backlog' = Tail(backlog)
    /\ position' = IF Head(backlog).isbuy
                     THEN position + Head(backlog).size
                     ELSE position - Head(backlog).size
    /\ \E p \in FillPrices :
         notify_order([Head(backlog) EXCEPT !.status = "Completed",
                                            !.executed_price = Num(p)])
    /\ buy_fills' = IF Head(backlog).isbuy THEN buy_fills + 1 ELSE buy_fills
    /\ closed_trades' = IF position # 0 /\ position' = 0
                          THEN closed_trades + 1 ELSE closed_trades
    /\ notify_trade(position # 0 /\ position' = 0)
    /\ UNCHANGED << data, order, stop_price, emitted, fault, dipped, pc >>

NextDeferred ==
    \/ Next
    \/ BrokerDefer
    \/ BrokerWorkBacklog

SpecDeferred == Init /\ [][NextDeferred]_vars

\* ------------------------------------------------ the same bar, twice
\* next() as a function of what it reads: every state in which it can be
\* called without a position on a bar past the warm-up, whatever stop an
\* earlier entry left behind.
MaxReoffers == 2

StaleStops ==
    {None} \cup { Num(StopLevel(c, a)) : c \in { x \in Closes : x > 0 },
                                         a \in AtrValues }

InitReoffer ==
    /\ barlen = slow_ema + 1
    /\ close_0 \in Closes
    /\ fast_0 \in { Num(v) : v \in EmaValues }
    /\ slow_0 \in { Num(v) : v \in EmaValues }
    /\ fast_m1 \in { Num(v) : v \in EmaValues }
    /\ slow_m1 \in { Num(v) : v \in EmaValues }
    /\ atr_0 \in { Num(v) : v \in AtrValues }
    /\ value \in PortfolioValues
    /\ position = 0
    /\ order = NoOrder
    /\ entry_price = None
    /\ stop_price \in StaleStops
    /\ trade_count \in 0..MaxTrades
    /\ emitted = << >>
    /\ fault = ""
    /\ backlog = << >>
    /\ dipped \in BOOLEAN
    /\ buy_fills = trade_count
    /\ closed_trades = trade_count
    /\ reported = trade_count
    /\ pc = "strategy"

\* The order goes to the broker and the bar is kept: next() will be called
\* on it once more.
SameBarAgain ==
    /\ pc = "feed"
    /\ Alive(order)
    /\ Len(emitted) < MaxReoffers
    /\ pc' = "broker"
    /\ UNCHANGED << data, position, order, entry_price, stop_price,
                    trade_count, emitted, fault, backlog, dipped, tally >>

NextReoffer ==
    \/ next
    \/ SameBarAgain
    \/ BrokerSubmit
    \/ BrokerAccept
    \/ BrokerMargin

SpecReoffer == InitReoffer /\ [][NextReoffer]_vars

\* ================================================================ claims
\* next() has run on the current bar and returned: the bar's data and the
\* position are still those next() saw, emitted holds what it issued.
Decided == pc = "feed" /\ barlen >= MinPeriod

\* The fields the strategy decides on: position, entry, stop, trade count.
PositionState == << position, entry_price, stop_price, trade_count >>

Entries == { i \in 1..Len(emitted) : emitted[i].kind = "buy" }
Exits == { i \in 1..Len(emitted) : emitted[i].kind = "sell" }

\* fast[t] > slow[t] and fast[t-1] <= slow[t-1], all four defined.
CrossAtBar ==
    /\ fast_0 # NaN /\ slow_0 # NaN /\ fast_m1 # NaN /\ slow_m1 # NaN
    /\ fast_0[1] > slow_0[1]
    /\ fast_m1[1] <= slow_m1[1]

AboveOnPreviousBar ==
    fast_m1 # NaN /\ slow_m1 # NaN /\ fast_m1[1] > slow_m1[1]

FastBelowSlow == fast_0 # NaN /\ slow_0 # NaN /\ fast_0[1] < slow_0[1]

FastNotBelowSlow == fast_0 # NaN /\ slow_0 # NaN /\ fast_0[1] >= slow_0[1]

\* floor(value * 0.95 / close) >= 1, resp. = 0, for a positive close.
SizeAtLeastOne ==
    close_0 > 0 /\ value * position_pct_num >= position_pct_den * close_0

SizeFloorsToZero ==
    close_0 > 0 /\ value * position_pct_num < position_pct_den * close_0

\* C1: on a bar processed without a position and with a size of at least 1,
\* a buy is issued exactly when fast crossed above slow on this bar; no buy
\* is issued on a bar whose previous bar already had fast above slow.
C1_EntryIffCrossover ==
    /\ (Decided /\ position = 0 /\ SizeAtLeastOne)
          => ((Entries # {}) <=> CrossAtBar)
    /\ (Decided /\ AboveOnPreviousBar) => Entries = {}

C1_Witness ==
    /\ Decided /\ position = 0 /\ SizeAtLeastOne /\ CrossAtBar
    /\ Len(emitted) = 1 /\ emitted[1].kind = "buy"

\* C2: the position state changes only in the step that confirms a fill,
\* never in the per-bar decision step (so a rejected entry leaves it as it
\* was before the decision).
C2_StateChangesOnlyOnFill ==
    [][ (PositionState' # PositionState)
           => (pc = "broker" /\ order'.status = "Completed") ]_vars

\* C3: with a position, fast below slow and the close below the stop, the
\* one order issued is an exit for trend reversal; no bar issues two exits.
C3_TrendReversalDominates ==
    /\ (/\ Decided /\ position # 0 /\ FastBelowSlow
        /\ stop_price # None /\ close_0 < stop_price[1])
          => emitted = << CloseOrder("Trend reversal") >>
    /\ Cardinality(Exits) <= 1

C3_Witness ==
    /\ Decided /\ position # 0 /\ FastBelowSlow
    /\ stop_price # None /\ close_0 < stop_price[1]
    /\ emitted = << CloseOrder("Trend reversal") >>

\* C4: once a sell has completed the position is closed and entry price and
\* stop price are both None.
C4_ConfirmedExitClears ==
    (order.status = "Completed" /\ ~order.isbuy)
       => (position = 0 /\ entry_price = None /\ stop_price = None)

\* C5: the decision at bar t fixes the stop at close[t] - atr[t] * 8, the
\* stop stays as it is while the buy is with the broker, and the completed
\* buy opens the position, takes the entry price from the fill and counts
\* one more trade.
EntryDecisionStep ==
    pc = "strategy" /\ Len(emitted') = 1 /\ emitted'[1].kind = "buy"

BuyFillStep ==
    /\ pc = "broker" /\ order.status = "Accepted" /\ order.isbuy
    /\ order'.status = "Completed"

C5_ConfirmedEntry ==
    [][ /\ EntryDecisionStep
           => (/\ atr_0 # NaN
               /\ stop_price' =
                    Num(close_0 - atr_0[1] * stop_atr_multiplier))
        /\ (Alive(order) /\ order.isbuy) => stop_price' = stop_price
        /\ BuyFillStep
           => (/\ position' = order.size
               /\ position' >= 1
               /\ order'.executed_price # None
               /\ entry_price' = order'.executed_price
               /\ trade_count' = trade_count + 1) ]_vars

C5_Witness ==
    /\ pc = "strategy" /\ order.status = "Completed" /\ order.isbuy
    /\ position = order.size
    /\ entry_price = order.executed_price
    /\ entry_price # Num(order.created_price)
    /\ stop_price # None
    /\ trade_count = 2

\* C6: on a bar where fast, slow or atr is undefined at t or t-1 the per-bar
\* step (prenext or next) issues no order, raises nothing and leaves the
\* position state as it was.
UndefinedAtBar ==
    \/ fast_0 = NaN \/ slow_0 = NaN \/ atr_0 = NaN
    \/ fast_m1 = NaN \/ slow_m1 = NaN
    \/ barlen - 1 < atr_period + 1

C6_WarmUpNoAction ==
    [][ (pc = "strategy" /\ UndefinedAtBar)
           => (/\ emitted' = << >>
               /\ order' = order
               /\ fault' = ""
               /\ PositionState' = PositionState) ]_vars

C6_Witness ==
    /\ Decided /\ barlen = MinPeriod
    /\ slow_m1 = NaN /\ Gt(fast_0, slow_0) /\ SizeAtLeastOne
    /\ atr_0 # NaN
    /\ emitted = << >> /\ order = NoOrder /\ stop_price = None

\* C7: without a position, on a crossover bar whose size floors to 0, no
\* order is issued and no field of the position state changes.
C7_DegenerateSize ==
    [][ (/\ pc = "strategy" /\ barlen >= MinPeriod
         /\ position = 0 /\ CrossAtBar /\ SizeFloorsToZero)
           => (/\ emitted' = << >>
               /\ order' = order
               /\ PositionState' = PositionState) ]_vars

C7_Witness ==
    /\ Decided /\ position = 0 /\ CrossAtBar /\ SizeFloorsToZero
    /\ emitted = << >>

\* C8: every buy issued has an integer size s >= 1 with
\* s * close <= value * 0.95 < (s + 1) * close, on a positive close.
C8_SizeIsFloor ==
    \A i \in Entries :
        /\ close_0 > 0
        /\ emitted[i].size >= 1
        /\ emitted[i].size * close_0 * position_pct_den
              <= value * position_pct_num
        /\ value * position_pct_num
              < (emitted[i].size + 1) * close_0 * position_pct_den

C8_Witness ==
    /\ Decided /\ Len(emitted) = 1 /\ emitted[1].kind = "buy"
    /\ emitted[1].size * close_0 * position_pct_den
          < value * position_pct_num

\* C9 as stated: with a position, fast not below slow and a stop that is
\* set, a close below the stop issues a stop-loss exit and any other close
\* issues nothing.
C9_StopLossWhenSet ==
    (Decided /\ position # 0 /\ FastNotBelowSlow /\ stop_price # None)
       => IF close_0 < stop_price[1]
            THEN emitted = << CloseOrder("Stop loss") >>
            ELSE emitted = << >>

\* C9 as amended: the same for a stop that is set and not 0 (next() tests
\* the truth value of stop_price, and 0.0 is false).
C9_StopLossWhenNonZero ==
    (/\ Decided /\ position # 0 /\ FastNotBelowSlow
     /\ stop_price # None /\ stop_price[1] # 0)
       => IF close_0 < stop_price[1]
            THEN emitted = << CloseOrder("Stop loss") >>
            ELSE emitted = << >>

C9_Witness ==
    /\ Decided /\ position # 0 /\ FastNotBelowSlow
    /\ stop_price # None /\ stop_price[1] # 0
    /\ close_0 > 0 /\ close_0 < stop_price[1]
    /\ emitted = << CloseOrder("Stop loss") >>

\* C10: a bar with an undefined indicator or a close that is zero or
\* negative ends with no order issued and no exception raised.
MalformedBar ==
    close_0 <= 0 \/ fast_0 = NaN \/ slow_0 = NaN \/ atr_0 = NaN

C10_MalformedNoAction ==
    (pc \in {"feed", "crashed"} /\ barlen >= 1 /\ MalformedBar)
       => (emitted = << >> /\ fault = "")

\* C11: a bar issues at most one order; an exit only with a position, an
\* entry only without one, and so never both.
C11_OneOrderPerBar ==
    /\ Len(emitted) <= 1
    /\ (Exits # {}) => (Decided /\ position # 0)
    /\ (Entries # {}) => (Decided /\ position = 0)
    /\ ~(Entries # {} /\ Exits # {})

\* A bar on which the rule for an entry and a rule for an exit both hold.
C11_Witness ==
    /\ Decided /\ position # 0 /\ CrossAtBar /\ SizeAtLeastOne
    /\ emitted = << CloseOrder("Stop loss") >>

\* C13: with a position and fast below slow the bar issues the trend exit,
\* whatever stop and close are; and, exits being filled before the next
\* bar is processed, no bar is processed with a position when fast was
\* below slow on it and on the bar before.
BelowOnPreviousBar ==
    fast_m1 # NaN /\ slow_m1 # NaN /\ fast_m1[1] < slow_m1[1]

AtBar == pc \in {"strategy", "feed"} /\ barlen >= MinPeriod

C13_ReversalAlwaysExits ==
    /\ (Decided /\ position # 0 /\ FastBelowSlow)
          => emitted = << CloseOrder("Trend reversal") >>
    /\ (AtBar /\ position # 0 /\ FastBelowSlow) => ~BelowOnPreviousBar

C13_Witness ==
    /\ Decided /\ position # 0 /\ FastBelowSlow
    /\ stop_price # None /\ close_0 > stop_price[1]
    /\ emitted = << CloseOrder("Trend reversal") >>

\* C14: from the bar that issues the entry until the position is closed
\* (the buy with the broker, or the position open) no step writes
\* stop_price.
C14_StopFixedAtEntry ==
    [][ ((Alive(order) /\ order.isbuy) \/ position # 0)
           => stop_price' = stop_price ]_vars

\* A later bar whose close and ATR would put the stop higher.
C14_Witness ==
    /\ Decided /\ position # 0 /\ emitted = << >>
    /\ stop_price # None /\ atr_0 # NaN
    /\ close_0 - atr_0[1] * stop_atr_multiplier > stop_price[1]

\* C16: a bar issues an entry only if some bar since the entry before it
\* had fast <= slow; so after a stop-loss exit inside an uptrend no entry is
\* issued for as long as fast stays above slow.
C16_NoReentryInSameUptrend ==
    [][ (pc = "strategy" /\ Entries' # {}) => dipped ]_vars

\* Stopped out with fast above slow ever since the entry, on a bar that
\* would size an entry: nothing is issued.
C16_Witness ==
    /\ Decided /\ position = 0 /\ ~dipped
    /\ order.status = "Completed" /\ ~order.isbuy
    /\ Gt(fast_m1, slow_m1) /\ Gt(fast_0, slow_0) /\ SizeAtLeastOne
    /\ emitted = << >>

\* C17: trade_count is the number of completed buys; it is one ahead of
\* the closed trades while a position is open and level with them while
\* flat; the number printed when a trade closes is that trade's rank; and
\* only a completed buy moves the counter, by one, upwards.
C17_TradeCountIsBuyFills ==
    /\ [](/\ trade_count = buy_fills
          /\ trade_count - closed_trades = (IF position # 0 THEN 1 ELSE 0)
          /\ reported = closed_trades)
    /\ [][ /\ trade_count' >= trade_count
           /\ (trade_count' # trade_count)
                 => (BuyFillStep /\ trade_count' = trade_count + 1) ]_vars

C17_Witness ==
    /\ pc = "strategy" /\ order.status = "Completed" /\ ~order.isbuy
    /\ position = 0
    /\ trade_count = 2 /\ closed_trades = 2 /\ reported = 2

\* C12: a refused buy leaves the position closed, and next() called again
\* on the same bar issues the same buy, of the same size, again.
C12_IdempotentReoffer ==
    /\ (order.status = "Margin") => (position = 0 /\ pc = "strategy")
    /\ (pc = "feed" /\ emitted # << >>)
          => (/\ position = 0
              /\ order.status = "Created" /\ order.isbuy
              /\ order.size = emitted[1].size)
    /\ \A i \in 1..Len(emitted) :
          emitted[i].kind = "buy" /\ emitted[i] = emitted[1]

C12_Witness ==
    /\ pc = "feed" /\ position = 0 /\ trade_count = 0
    /\ Len(emitted) = 2
    /\ emitted[1].kind = "buy" /\ emitted[2] = emitted[1]
    /\ order.status = "Created" /\ order.size = emitted[1].size

\* C15: the position held is 0 or the size of the last completed entry,
\* never negative and never added to: it changes only to 0, or from 0 to
\* the size of the buy that has just completed, also when an exit is still
\* unfilled while the next bar is processed.
C15_LongOnlyOnePosition ==
    [][ /\ position' >= 0
        /\ (position' # position)
              => \/ position' = 0
                 \/ (BuyFillStep /\ position = 0 /\ position' = order.size)
      ]_vars

====
